---- MODULE Spec2Model ----
(***************************************************************************)
(* The library model of the local audio player (src/main.py, class         *)
(* AudioPlayer): folder scanning, genre buckets, the flattened playlist,   *)
(* removal, refresh, clear, shuffle, the transport cursor, and the         *)
(* persisted JSON document as it is saved, and loaded by the next run.     *)
(*                                                                         *)
(* A directory is a sequence of path segments, a file name is a pair       *)
(* <<stem, extension>>, and a file path is the record                      *)
(* [dir |-> directory, file |-> file name] (os.path.join(root, file)).     *)
(***************************************************************************)
EXTENDS Integers, Sequences, FiniteSets, TLC

\* How many times the directory tree on disk may change during a run.
MaxDiskChanges == 1

\* How many rows of the playlist view can be selected at once: the view is
\* left in QListWidget's default single-selection mode, while remove_selected
\* itself loops over any number of selected items.
MaxSelected == 1

\* Python's None.
None == "None"

\* The fixed first entry of the genre selector (main.py:144).
AllGenres == "All Genres"

(***************************************************************************)
(* The directory tree the user's disk may hold.                            *)
(***************************************************************************)
DirA == <<"A">>
DirARock == <<"A", "Rock">>
DirARockRock == <<"A", "Rock", "Rock">>
DirB == <<"B">>
DirBRock == <<"B", "Rock">>

\* Every directory of the universe, in the top-down order os.walk visits them.
DirOrder == <<DirA, DirARock, DirARockRock, DirB, DirBRock>>

AllDirs == {DirOrder[i] : i \in 1..Len(DirOrder)}

\* os.path.join(root, file)
Join(root, file) == [dir |-> root, file |-> file]

\* Every file the disk may hold, in the order a directory listing returns them.
FileOrder ==
    << Join(DirA, <<"notes", ".txt">>),
       Join(DirA, <<"e", ".m4a">>),
       Join(DirA, <<"b", ".OGG">>),
       Join(DirARock, <<"c", ".flac">>),
       Join(DirARockRock, <<"a", ".mp3">>),
       Join(DirBRock, <<"d", ".wav">>) >>

AllFiles == {FileOrder[i] : i \in 1..Len(FileOrder)}

\* The files that are not on the disk when the program starts.
LateFiles == {Join(DirA, <<"b", ".OGG">>)}

\* The files and the directories that may be deleted while the program runs.
DeletableFiles == {Join(DirA, <<"e", ".m4a">>)}

DeletableDirs == {DirB, DirARockRock}

\* The folders the user picks in the "Select Music Folder" dialog.
ScanRoots == {DirA, DirARock, DirB}

\* What the tag parser finds in a file: "tagged" has TIT2 and TPE1 frames,
\* "art" has them and an APIC frame, "untagged" has none of the three, and
\* on "unreadable" the parser raises.
FileKind(path) ==
    CASE path.file = <<"a", ".mp3">> -> "art"
      [] path.file = <<"d", ".wav">> -> "tagged"
      [] path.file = <<"e", ".m4a">> -> "unreadable"
      [] path.file = <<"c", ".flac">> -> "unreadable"
      [] OTHER -> "untagged"

\* str.lower() on the extensions of the universe.
Lower(ext) ==
    CASE ext = ".OGG" -> ".ogg"
      [] OTHER -> ext

\* os.path.basename of a directory
Basename(dir) == dir[Len(dir)]

IsPrefix(p, d) == Len(p) <= Len(d) /\ SubSeq(d, 1, Len(p)) = p

\* os.path.exists for a folder
DirExists(d, dsk) == d \in dsk.dirs

\* The directories os.walk(folder_path) yields, top-down; nothing when the
\* folder does not exist (os.walk ignores the listing error).
Walk(folder_path, dsk) ==
    SelectSeq(DirOrder, LAMBDA d : d \in dsk.dirs /\ IsPrefix(folder_path, d))

\* The `files` list os.walk yields for directory root.
FilesOf(root, dsk) ==
    LET here == SelectSeq(FileOrder, LAMBDA p : p.dir = root /\ p \in dsk.files)
    IN  [i \in 1..Len(here) |-> here[i].file]

\* The title and artist frames of the tagged files.
TIT2(path) == IF path.file[1] = "a" THEN "Song A" ELSE "Song D"

TPE1(path) == IF path.file[1] = "a" THEN "Artist A" ELSE "Artist D"

(***************************************************************************)
(* extract_metadata                                                        *)
(***************************************************************************)
\* The defaults: the file name without extension, "Unknown Artist", no art.
DefaultMetadata(file_path) ==
    [title |-> file_path.file[1], artist |-> "Unknown Artist", album_art |-> None]

extract_metadata(file_path) ==
    LET kind == FileKind(file_path)
        dflt == DefaultMetadata(file_path)
    IN  CASE kind = "unreadable" -> dflt
          [] kind = "untagged" -> dflt
          [] kind = "tagged" ->
               [title |-> TIT2(file_path), artist |-> TPE1(file_path),
                album_art |-> None]
          [] OTHER ->
               [title |-> TIT2(file_path), artist |-> TPE1(file_path),
                album_art |-> "bytes"]

(***************************************************************************)
(* The genre mapping: a Python dict, which keeps its keys in insertion     *)
(* order.  It is a sequence of [genre, tracks] entries with distinct keys. *)
(***************************************************************************)
KeySet(g) == {g[i].genre : i \in 1..Len(g)}

HasKey(g, k) == k \in KeySet(g)

\* g[k]
Get(g, k) == g[CHOOSE i \in 1..Len(g) : g[i].genre = k].tracks

\* g.get(k, [])
GetOr(g, k) == IF HasKey(g, k) THEN Get(g, k) ELSE <<>>

\* g[k] = tracks: an existing key keeps its place, a new key goes last.
Put(g, k, tracks) ==
    IF HasKey(g, k)
    THEN [i \in 1..Len(g) |-> IF g[i].genre = k
                              THEN [genre |-> k, tracks |-> tracks]
                              ELSE g[i]]
    ELSE Append(g, [genre |-> k, tracks |-> tracks])

\* del g[k]
Del(g, k) == SelectSeq(g, LAMBDA e : e.genre # k)

\* QComboBox.removeItem(findText(text))
RemoveItem(items, text) == SelectSeq(items, LAMBDA t : t # text)

(***************************************************************************)
(* scan_folder                                                             *)
(***************************************************************************)
supported_formats == {".mp3", ".wav", ".flac", ".m4a", ".ogg"}

\* any(file.lower().endswith(fmt) for fmt in supported_formats)
IsAudio(file) == Lower(file[2]) \in supported_formats

\* The record scan_folder appends for a file.
TrackOf(file_path) ==
    LET metadata == extract_metadata(file_path)
    IN  [path |-> file_path, title |-> metadata.title,
         artist |-> metadata.artist, album_art |-> metadata.album_art]

\* The records of the audio files of one directory, in listing order.
ScanFiles(root, dsk) ==
    LET audio == SelectSeq(FilesOf(root, dsk), IsAudio)
    IN  [i \in 1..Len(audio) |-> TrackOf(Join(root, audio[i]))]

\* A scan that leaves the bucket as it was and appends to it.
KeepBucket(g, genre) == g

\* self.genres[genre] = []  ("Clear existing tracks for this genre")
ClearBucket(g, genre) == Put(g, genre, <<>>)

\* One iteration of the os.walk loop.  st holds the genre mapping, the items
\* of the genre selector, the scanned folders and the paths handed to
\* extract_metadata so far.
ScanDir(st, root, dsk) ==
    LET genre == Basename(root)
        isNew == ~HasKey(st.genres, genre)
        g1 == IF isNew THEN Put(st.genres, genre, <<>>) ELSE st.genres
        g2 == ClearBucket(g1, genre)
        new == ScanFiles(root, dsk)
    IN  [st EXCEPT !.genres = Put(g2, genre, Get(g2, genre) \o new),
                   !.items = IF isNew THEN Append(@, genre) ELSE @,
                   !.calls = @ \o [i \in 1..Len(new) |-> new[i].path]]

RECURSIVE ScanWalk(_, _, _)
ScanWalk(st, dirs, dsk) ==
    IF dirs = <<>> THEN st
    ELSE ScanWalk(ScanDir(st, Head(dirs), dsk), Tail(dirs), dsk)

\* scan_folder up to and including scanned_folders.add; update_playlist and
\* save_data, which end it, are functions of the state it leaves.
scan_folder(st, folder_path, dsk) ==
    LET walked == ScanWalk(st, Walk(folder_path, dsk), dsk)
    IN  [walked EXCEPT !.scanned = @ \cup {folder_path}]

(***************************************************************************)
(* update_playlist                                                         *)
(***************************************************************************)
\* An annotation with the selector's text in place of the bucket's key.
AnnotateWithFilter(track, genre) ==
    [path |-> track.path, title |-> track.title, artist |-> track.artist,
     album_art |-> track.album_art, genre |-> AllGenres]

\* track_copy['genre'] = genre
Annotate(track, genre) ==
    [path |-> track.path, title |-> track.title, artist |-> track.artist,
     album_art |-> track.album_art, genre |-> genre]

AnnotateAll(tracks, genre) ==
    [i \in 1..Len(tracks) |-> Annotate(tracks[i], genre)]

RECURSIVE FlattenAll(_)
FlattenAll(g) ==
    IF g = <<>> THEN <<>>
    ELSE AnnotateAll(Head(g).tracks, Head(g).genre) \o FlattenAll(Tail(g))

\* The playlist update_playlist computes for the genre selector's text.
Flatten(g, current) ==
    IF current = AllGenres THEN FlattenAll(g)
    ELSE AnnotateAll(GetOr(g, current), current)

(***************************************************************************)
(* save_data                                                               *)
(***************************************************************************)
\* json.dump raises TypeError on a bytes value, after open(..., 'w') has
\* truncated the file and part of the document is written.
Serializable(g) ==
    \A i \in 1..Len(g) : \A j \in 1..Len(g[i].tracks) :
        g[i].tracks[j].album_art # "bytes"

save_data(g, folders) ==
    IF Serializable(g)
    THEN [kind |-> "json", genres |-> g, folders |-> folders]
    ELSE [kind |-> "partial"]

\* What the file system does to the calls of one handler: "ok" lets them
\* through, on "open_error" open(config_file, 'w') raises, on "write_error"
\* the write raises after the file was opened, and on "read_error"
\* open(config_file, 'r') raises.
SaveFaults == {"ok", "open_error", "write_error"}

LoadFaults == SaveFaults \cup {"read_error"}

\* The file save_data leaves: the old one when it cannot be opened, a
\* truncated one when the write or the encoding raises.  The exception is
\* caught and printed in each case.
WriteConfig(io, g, folders, old) ==
    CASE io = "open_error" -> old
      [] io = "write_error" -> [kind |-> "partial"]
      [] OTHER -> save_data(g, folders)

\* How the save_data call of a handler ended.
SaveResult(io, g) ==
    CASE io # "ok" -> io
      [] ~Serializable(g) -> "type_error"
      [] OTHER -> "ok"

(***************************************************************************)
(* load_saved_data                                                         *)
(***************************************************************************)
\* The value of a key a record of the persisted document does not have.
Missing == "Missing"

\* The path of a record without a 'path' key.
NoPath == [dir |-> <<>>, file |-> <<Missing, Missing>>]

\* os.path.exists for a file
FileExists(path, dsk) == path \in dsk.files

RECURSIVE Records(_)
\* The records of a genre mapping in the order the loops visit them.
Records(g) == IF g = <<>> THEN <<>> ELSE Head(g).tracks \o Records(Tail(g))

\* track['path'] raises KeyError on a record without that key.
Raises(g) == \E i \in 1..Len(Records(g)) : Records(g)[i].path = NoPath

\* A load that keeps the records whose files are gone.
KeepAll(tracks, dsk) == tracks

\* The records of a bucket whose paths exist on disk.
Existing(tracks, dsk) == SelectSeq(tracks, LAMBDA t : FileExists(t.path, dsk))

\* "Add missing fields for older tracks": artist and title from the extractor.
Upgrade(track) ==
    IF track.artist = Missing
    THEN [track EXCEPT !.artist = extract_metadata(track.path).artist,
                       !.title = extract_metadata(track.path).title]
    ELSE track

\* The body of the loop over the genres of the document.
LoadBucket(tracks, dsk) ==
    LET kept == Existing(tracks, dsk)
    IN  [i \in 1..Len(kept) |-> Upgrade(kept[i])]

RECURSIVE LoadCalls(_, _)
\* The paths load_saved_data hands to extract_metadata before it ends.
LoadCalls(records, dsk) ==
    IF records = <<>> \/ Head(records).path = NoPath THEN <<>>
    ELSE (IF FileExists(Head(records).path, dsk) /\ Head(records).artist = Missing
          THEN <<Head(records).path>> ELSE <<>>) \o LoadCalls(Tail(records), dsk)

\* A load whose except branch leaves what the try block had assigned.
load_unguarded(file, dsk, io) ==
    CASE file.kind = "absent" ->
           [genres |-> <<>>, scanned |-> {}, calls |-> <<>>, file |-> file,
            result |-> "absent"]
      [] file.kind = "json" /\ io # "read_error" ->
           LET g == [i \in 1..Len(file.genres) |->
                        [genre |-> file.genres[i].genre,
                         tracks |-> LoadBucket(file.genres[i].tracks, dsk)]]
           IN  [genres |-> g, scanned |-> file.folders,
                calls |-> LoadCalls(Records(file.genres), dsk),
                file |-> IF Raises(file.genres) THEN file
                         ELSE WriteConfig(io, g, file.folders, file),
                result |-> IF Raises(file.genres) THEN "failed" ELSE "ok"]
      [] OTHER ->
           [genres |-> <<>>, scanned |-> {}, calls |-> <<>>, file |-> file,
            result |-> "failed"]

\* load_saved_data on the file and the disk it finds.  result tells how it
\* ended: "absent" (no file), "failed" (the except branch) or "ok".
load_saved_data(file, dsk, io) ==
    CASE file.kind = "absent" ->
           [genres |-> <<>>, scanned |-> {}, calls |-> <<>>, file |-> file,
            result |-> "absent"]
      [] file.kind = "json" /\ io # "read_error" /\ ~Raises(file.genres) ->
           LET g == [i \in 1..Len(file.genres) |->
                        [genre |-> file.genres[i].genre,
                         tracks |-> LoadBucket(file.genres[i].tracks, dsk)]]
           IN  [genres |-> g, scanned |-> file.folders,
                calls |-> LoadCalls(Records(file.genres), dsk),
                file |-> WriteConfig(io, g, file.folders, file),
                result |-> "ok"]
      [] OTHER ->
           [genres |-> <<>>, scanned |-> {},
            calls |-> IF file.kind = "json" /\ io # "read_error"
                      THEN LoadCalls(Records(file.genres), dsk) ELSE <<>>,
            file |-> file, result |-> "failed"]

\* update_playlist raises KeyError on a record without a 'title' key.
Untitled(g) == \E i \in 1..Len(Records(g)) : Records(g)[i].title = Missing

\* AudioPlayer.__init__: load_saved_data, the genre selector with one item
\* per key of the mapping, update_playlist under "All Genres".
Constructed(file, dsk, io) ==
    LET ld == load_saved_data(file, dsk, io)
    IN  [genres |-> ld.genres, scanned |-> ld.scanned, calls |-> ld.calls,
         file |-> ld.file, result |-> ld.result,
         items |-> <<AllGenres>> \o [i \in 1..Len(ld.genres) |-> ld.genres[i].genre],
         playlist |-> IF Untitled(ld.genres) THEN <<>> ELSE FlattenAll(ld.genres),
         app |-> IF Untitled(ld.genres) THEN "crashed" ELSE "running"]

(***************************************************************************)
(* remove_selected                                                         *)
(***************************************************************************)
RECURSIVE PermSeqs(_)
\* Every order in which the elements of a finite set can be enumerated.
PermSeqs(S) ==
    IF S = {} THEN {<<>>}
    ELSE UNION {{<<x>> \o p : p \in PermSeqs(S \ {x})} : x \in S}

\* A removal that leaves the emptied bucket in the mapping.
KeepEmpty(st, genre) == st

\* "Remove genre if empty": del self.genres[genre] and the selector's item.
DropIfEmpty(st, genre) ==
    IF Get(st.genres, genre) = <<>>
    THEN [st EXCEPT !.genres = Del(@, genre), !.items = RemoveItem(@, genre)]
    ELSE st

\* The body of the loop over the selected items under "All Genres": row is
\* playlist_widget.row(item), counted from 1.
RemoveTrack(st, row, playlist) ==
    LET track == playlist[row]
        genre == track.genre
        kept == SelectSeq(Get(st.genres, genre), LAMBDA t : t.path # track.path)
    IN  DropIfEmpty([st EXCEPT !.genres = Put(@, genre, kept)], genre)

RECURSIVE RemoveTracks(_, _, _)
RemoveTracks(st, rows, playlist) ==
    IF rows = <<>> THEN st
    ELSE RemoveTracks(RemoveTrack(st, Head(rows), playlist), Tail(rows), playlist)

\* The branch for a specific genre: the bucket keeps the records whose
\* position in the bucket is not the row of a selected item.
RemoveRows(st, selected_indices, current) ==
    LET bucket == Get(st.genres, current)
        keep == {i \in 1..Len(bucket) : i \notin selected_indices}
        kept == SelectSeq([i \in 1..Len(bucket) |-> [pos |-> i, track |-> bucket[i]]],
                          LAMBDA e : e.pos \in keep)
        left == [i \in 1..Len(kept) |-> kept[i].track]
    IN  DropIfEmpty([st EXCEPT !.genres = Put(@, current, left)], current)

(***************************************************************************)
(* refresh_library                                                         *)
(***************************************************************************)
\* A refresh that re-scans on top of the old mapping.
NotCleared(g) == g

\* self.genres.clear()
ClearedGenres(g) == <<>>

RECURSIVE RescanAll(_, _, _)
\* for folder in folders_to_rescan: if os.path.exists(folder): scan_folder
RescanAll(st, folders, dsk) ==
    IF folders = <<>> THEN st
    ELSE RescanAll(IF DirExists(Head(folders), dsk)
                   THEN scan_folder(st, Head(folders), dsk)
                   ELSE st,
                   Tail(folders), dsk)

(***************************************************************************)
(* shuffle_playlist                                                        *)
(***************************************************************************)
\* The position of x counted from 1.
IndexFromOne(seq, x) == CHOOSE i \in 1..Len(seq) :
                            seq[i] = x /\ \A j \in 1..(i - 1) : seq[j] # x

\* list.index(x), counted from 0: the first position holding a value equal to x.
IndexOf(seq, x) == (CHOOSE i \in 1..Len(seq) :
                       seq[i] = x /\ \A j \in 1..(i - 1) : seq[j] # x) - 1

\* 0 <= index < len(self.current_playlist)
ValidIndex(index, playlist) == 0 <= index /\ index < Len(playlist)

(***************************************************************************)
(* State                                                                   *)
(***************************************************************************)
VARIABLES
    genres,            \* self.genres
    scanned_folders,   \* self.scanned_folders
    genre_items,       \* the items of self.genre_combo
    current_genre,     \* self.genre_combo.currentText()
    current_playlist,  \* self.current_playlist, row for row self.playlist_widget
    current_index,     \* self.current_index, counted from 0, -1 for none
    player_source,     \* <<path>> last given to self.player.setSource, <<>> if none
    config_file,       \* the content of ~/.audio_player_config.json
    app,               \* "running", "closed" after closeEvent, "crashed" when
                       \* the constructor raised
    disk,              \* the directories and files that exist
    disk_changes,      \* how often the disk has changed
    extract_calls,     \* the paths the last operation gave to extract_metadata
    lastOp             \* the last operation, its inputs and, for the operations
                       \* on the Library and the playlist, the state before it

vars == <<genres, scanned_folders, genre_items, current_genre, current_playlist,
          current_index, player_source, config_file, app, disk, disk_changes,
          extract_calls, lastOp>>

\* The part of the state an operation's effect is stated against.
Snapshot ==
    [genres |-> genres, scanned |-> scanned_folders, playlist |-> current_playlist,
     current |-> current_genre, index |-> current_index]

Init ==
    /\ genres = <<>>
    /\ scanned_folders = {}
    /\ genre_items = <<AllGenres>>
    /\ current_genre = AllGenres
    /\ current_playlist = <<>>
    /\ current_index = -1
    /\ player_source = <<>>
    /\ config_file = [kind |-> "absent"]
    /\ app = "running"
    /\ disk = [dirs |-> AllDirs, files |-> AllFiles \ LateFiles]
    /\ disk_changes = 0
    /\ extract_calls = <<>>
    /\ lastOp = [op |-> "init"]

\* What playlist_widget.selectedItems() can hold: sets of rows, counted from 1.
Selections ==
    {sel \in SUBSET (1..Len(current_playlist)) : Cardinality(sel) <= MaxSelected}

\* The library part of the state, as the scan and remove operators take it.
Library ==
    [genres |-> genres, items |-> genre_items, scanned |-> scanned_folders,
     calls |-> <<>>]

(***************************************************************************)
(* The user's operations.  io is what the file system does to the          *)
(* handler's save_data calls.                                              *)
(***************************************************************************)
\* add_folder: the dialog returns an existing directory, scan_folder runs.
Scan(folder_path, io) ==
    /\ app = "running"
    /\ DirExists(folder_path, disk)
    /\ \E st \in {scan_folder(Library, folder_path, disk)} :
           /\ genres' = st.genres
           /\ genre_items' = st.items
           /\ scanned_folders' = st.scanned
           /\ extract_calls' = st.calls
           /\ current_playlist' = Flatten(st.genres, current_genre)
           /\ config_file' = WriteConfig(io, st.genres, st.scanned, config_file)
           /\ lastOp' = [op |-> "scan", folder |-> folder_path, pre |-> Snapshot,
                         save |-> SaveResult(io, st.genres)]
    /\ UNCHANGED <<current_genre, current_index, player_source, app, disk,
                   disk_changes>>

\* refresh_library.  The set of folders is iterated in an arbitrary order.
\* genre_combo.clear() followed by addItem("All Genres") leaves "All Genres"
\* the selector's current text.
Refresh(io) ==
    /\ app = "running"
    /\ \E order \in PermSeqs(scanned_folders) :
        /\ \E st \in {RescanAll([genres |-> ClearedGenres(genres),
                                 items |-> <<AllGenres>>,
                                 scanned |-> {},
                                 calls |-> <<>>], order, disk)} :
               /\ genres' = st.genres
               /\ genre_items' = st.items
               /\ scanned_folders' = st.scanned
               /\ extract_calls' = st.calls
               /\ current_playlist' = Flatten(st.genres, AllGenres)
               /\ config_file' = WriteConfig(io, st.genres, st.scanned, config_file)
               /\ lastOp' = [op |-> "refresh", order |-> order, pre |-> Snapshot,
                             save |-> SaveResult(io, st.genres)]
        /\ current_genre' = AllGenres
        /\ UNCHANGED <<current_index, player_source, app, disk, disk_changes>>

\* remove_selected.  selected is the set of selected rows (counted from 1);
\* selectedItems() returns them in an unspecified order.
Remove(selected, io) ==
    /\ app = "running"
    /\ extract_calls' = <<>>
    /\ UNCHANGED <<scanned_folders, current_index, player_source, app, disk,
                   disk_changes>>
    /\ IF selected = {}
       THEN /\ lastOp' = [op |-> "remove", selected |-> selected,
                          pre |-> Snapshot, save |-> "none"]
            /\ UNCHANGED <<genres, genre_items, current_genre, current_playlist,
                           config_file>>
       ELSE \E rows \in PermSeqs(selected) :
            \E st \in {IF current_genre = AllGenres
                        THEN RemoveTracks(Library, rows, current_playlist)
                        ELSE RemoveRows(Library, selected, current_genre)} :
              LET text == IF current_genre # AllGenres
                             /\ ~HasKey(st.genres, current_genre)
                          THEN AllGenres
                          ELSE current_genre
              IN  /\ genres' = st.genres
                  /\ genre_items' = st.items
                  /\ current_genre' = text
                  /\ current_playlist' = Flatten(st.genres, text)
                  /\ config_file' = WriteConfig(io, st.genres, scanned_folders,
                                                config_file)
                  /\ lastOp' = [op |-> "remove", selected |-> selected,
                                pre |-> Snapshot,
                                save |-> SaveResult(io, st.genres)]

\* A clear_library whose change of the selector does not reach
\* update_playlist.
ClearKeepsPlaylist(io) ==
    /\ app = "running"
    /\ genres' = <<>>
    /\ scanned_folders' = {}
    /\ genre_items' = <<AllGenres>>
    /\ current_genre' = AllGenres
    /\ config_file' = WriteConfig(io, <<>>, {}, config_file)
    /\ extract_calls' = <<>>
    /\ lastOp' = [op |-> "clear", pre |-> Snapshot, save |-> SaveResult(io, <<>>)]
    /\ UNCHANGED <<current_playlist, current_index, player_source, app, disk,
                   disk_changes>>

\* clear_library.  genre_combo.clear() and addItem("All Genres") change the
\* selector's text, and each change runs genre_changed -> update_playlist.
Clear(io) ==
    /\ app = "running"
    /\ genres' = <<>>
    /\ scanned_folders' = {}
    /\ genre_items' = <<AllGenres>>
    /\ current_genre' = AllGenres
    /\ current_playlist' = Flatten(<<>>, AllGenres)
    /\ config_file' = WriteConfig(io, <<>>, {}, config_file)
    /\ extract_calls' = <<>>
    /\ lastOp' = [op |-> "clear", pre |-> Snapshot, save |-> SaveResult(io, <<>>)]
    /\ UNCHANGED <<current_index, player_source, app, disk, disk_changes>>

\* The user picks another item of the genre selector: genre_changed.
GenreChanged(genre) ==
    /\ app = "running"
    /\ genre # current_genre
    /\ \E i \in 1..Len(genre_items) : genre_items[i] = genre
    /\ current_genre' = genre
    /\ current_playlist' = Flatten(genres, genre)
    /\ extract_calls' = <<>>
    /\ lastOp' = [op |-> "genre", genre |-> genre]
    /\ UNCHANGED <<genres, scanned_folders, genre_items, current_index,
                   player_source, config_file, app, disk, disk_changes>>

\* A shuffle of a playlist that is the list object of the selected genre's
\* bucket: the bucket is reordered with it.
ShuffleAliased ==
    /\ app = "running"
    /\ current_playlist # <<>>
    /\ \E perm \in PermSeqs(1..Len(current_playlist)) :
          \E shuffled \in {[i \in 1..Len(perm) |-> current_playlist[perm[i]]]} :
              /\ current_playlist' = shuffled
              /\ current_index' =
                   IF ValidIndex(current_index, current_playlist)
                   THEN IndexOf(shuffled, current_playlist[current_index + 1])
                   ELSE current_index
              /\ genres' =
                   IF HasKey(genres, current_genre)
                   THEN Put(genres, current_genre,
                            [i \in 1..Len(perm) |->
                                Get(genres, current_genre)[perm[i]]])
                   ELSE genres
              /\ lastOp' = [op |-> "shuffle", pre |-> Snapshot]
    /\ extract_calls' = <<>>
    /\ UNCHANGED <<scanned_folders, genre_items, current_genre,
                   player_source, config_file, app, disk, disk_changes>>

\* shuffle_playlist: random.shuffle may leave any order.
Shuffle ==
    /\ app = "running"
    /\ current_playlist # <<>>
    /\ \E perm \in PermSeqs(1..Len(current_playlist)) :
          \E shuffled \in {[i \in 1..Len(perm) |-> current_playlist[perm[i]]]} :
              /\ current_playlist' = shuffled
              /\ current_index' =
                   IF ValidIndex(current_index, current_playlist)
                   THEN IndexOf(shuffled, current_playlist[current_index + 1])
                   ELSE current_index
              /\ lastOp' = [op |-> "shuffle", pre |-> Snapshot]
    /\ extract_calls' = <<>>
    /\ UNCHANGED <<genres, scanned_folders, genre_items, current_genre,
                   player_source, config_file, app, disk, disk_changes>>

\* play_track: the cursor and the player's source change for a valid index only.
play_track(index) ==
    IF ValidIndex(index, current_playlist)
    THEN /\ current_index' = index
         /\ player_source' = <<current_playlist[index + 1].path>>
    ELSE UNCHANGED <<current_index, player_source>>

\* playlist_double_clicked on a row of the playlist view.
PlayTrack(index) ==
    /\ app = "running"
    /\ ValidIndex(index, current_playlist)
    /\ play_track(index)
    /\ extract_calls' = <<>>
    /\ lastOp' = [op |-> "play", index |-> index, from |-> current_index]
    /\ UNCHANGED <<genres, scanned_folders, genre_items, current_genre,
                   current_playlist, config_file, app, disk, disk_changes>>

\* play_next: nothing happens on an empty playlist.
PlayNext ==
    /\ app = "running"
    /\ IF current_playlist # <<>>
       THEN play_track((current_index + 1) % Len(current_playlist))
       ELSE UNCHANGED <<current_index, player_source>>
    /\ extract_calls' = <<>>
    /\ lastOp' = [op |-> "next", from |-> current_index]
    /\ UNCHANGED <<genres, scanned_folders, genre_items, current_genre,
                   current_playlist, config_file, app, disk, disk_changes>>

\* A play_previous that steps back without wrapping around.
PlayPreviousNoWrap ==
    /\ app = "running"
    /\ IF current_playlist # <<>>
       THEN play_track(current_index - 1)
       ELSE UNCHANGED <<current_index, player_source>>
    /\ extract_calls' = <<>>
    /\ lastOp' = [op |-> "previous", from |-> current_index]
    /\ UNCHANGED <<genres, scanned_folders, genre_items, current_genre,
                   current_playlist, config_file, app, disk, disk_changes>>

\* play_previous: nothing happens on an empty playlist.
PlayPrevious ==
    /\ app = "running"
    /\ IF current_playlist # <<>>
       THEN play_track((current_index - 1) % Len(current_playlist))
       ELSE UNCHANGED <<current_index, player_source>>
    /\ extract_calls' = <<>>
    /\ lastOp' = [op |-> "previous", from |-> current_index]
    /\ UNCHANGED <<genres, scanned_folders, genre_items, current_genre,
                   current_playlist, config_file, app, disk, disk_changes>>

(***************************************************************************)
(* The window is closed and the program is started again.                  *)
(***************************************************************************)
\* closeEvent: save_data, and the process ends.
Close(io) ==
    /\ app = "running"
    /\ config_file' = WriteConfig(io, genres, scanned_folders, config_file)
    /\ app' = "closed"
    /\ extract_calls' = <<>>
    /\ lastOp' = [op |-> "close", save |-> SaveResult(io, genres)]
    /\ UNCHANGED <<genres, scanned_folders, genre_items, current_genre,
                   current_playlist, current_index, player_source, disk,
                   disk_changes>>

\* A new process: AudioPlayer() on the file and the disk it finds.  file is
\* the persisted document load_saved_data was given.
Start(io) ==
    /\ app # "running"
    /\ \E c \in {Constructed(config_file, disk, io)} :
           /\ genres' = c.genres
           /\ scanned_folders' = c.scanned
           /\ genre_items' = c.items
           /\ current_playlist' = c.playlist
           /\ config_file' = c.file
           /\ app' = c.app
           /\ extract_calls' = c.calls
           /\ lastOp' = [op |-> "start", io |-> io, result |-> c.result,
                         file |-> config_file]
    /\ current_genre' = AllGenres
    /\ current_index' = -1
    /\ player_source' = <<>>
    /\ UNCHANGED <<disk, disk_changes>>

(***************************************************************************)
(* The disk changes under the program                                      *)
(***************************************************************************)
DiskStep(newDisk) ==
    /\ disk_changes < MaxDiskChanges
    /\ disk' = newDisk
    /\ disk_changes' = disk_changes + 1
    /\ extract_calls' = <<>>
    /\ lastOp' = [op |-> "disk"]
    /\ UNCHANGED <<genres, scanned_folders, genre_items, current_genre,
                   current_playlist, current_index, player_source, config_file,
                   app>>

DeleteFile(path) ==
    /\ path \in disk.files
    /\ DiskStep([disk EXCEPT !.files = @ \ {path}])

AddFile(path) ==
    /\ path \notin disk.files
    /\ path.dir \in disk.dirs
    /\ DiskStep([disk EXCEPT !.files = @ \cup {path}])

\* A directory goes with everything below it.
DeleteDir(dir) ==
    /\ dir \in disk.dirs
    /\ DiskStep([dirs |-> {d \in disk.dirs : ~IsPrefix(dir, d)},
                 files |-> {p \in disk.files : ~IsPrefix(dir, p.dir)}])

\* The library operations on a file system that lets every save through.
Next ==
    \/ \E folder_path \in ScanRoots : Scan(folder_path, "ok")
    \/ Refresh("ok")
    \/ \E selected \in Selections : Remove(selected, "ok")
    \/ Clear("ok")
    \/ \E genre \in KeySet(genres) \cup {AllGenres} : GenreChanged(genre)
    \/ Shuffle
    \/ \E path \in DeletableFiles : DeleteFile(path)
    \/ \E path \in LateFiles : AddFile(path)
    \/ \E dir \in DeletableDirs : DeleteDir(dir)

Spec == Init /\ [][Next]_vars

\* The program starts on a disk that holds every file of the universe.
InitPlayer ==
    /\ genres = <<>>
    /\ scanned_folders = {}
    /\ genre_items = <<AllGenres>>
    /\ current_genre = AllGenres
    /\ current_playlist = <<>>
    /\ current_index = -1
    /\ player_source = <<>>
    /\ config_file = [kind |-> "absent"]
    /\ app = "running"
    /\ disk = [dirs |-> AllDirs, files |-> AllFiles]
    /\ disk_changes = 0
    /\ extract_calls = <<>>
    /\ lastOp = [op |-> "init"]

\* The library operations together with the transport controls, on a disk
\* that stays as it is.  On such a disk refresh_library leaves the Library,
\* the playlist and the cursor that clear_library followed by a scan of each
\* folder leaves, so it is left to Next.
NextPlayer ==
    \/ \E folder_path \in ScanRoots : Scan(folder_path, "ok")
    \/ \E selected \in Selections : Remove(selected, "ok")
    \/ Clear("ok")
    \/ \E genre \in KeySet(genres) \cup {AllGenres} : GenreChanged(genre)
    \/ Shuffle
    \/ \E index \in 0..(Len(current_playlist) - 1) : PlayTrack(index)
    \/ PlayNext
    \/ PlayPrevious

SpecPlayer == InitPlayer /\ [][NextPlayer]_vars

(***************************************************************************)
(* The persisted document across runs of the program.                      *)
(***************************************************************************)
\* A file that was on the disk once and is gone.
Ghost == Join(DirA, <<"gone", ".mp3">>)

\* A record as an older version of the program wrote it: no artist, no art.
Legacy(path, title) ==
    [path |-> path, title |-> title, artist |-> Missing, album_art |-> Missing]

\* The files the program may find at ~/.audio_player_config.json when it is
\* first started: none, one that is no JSON document, one of older records
\* of which one names a file that is gone, one with a record without a path,
\* and one with a record without a title.
InitialConfigs ==
    { [kind |-> "absent"],
      [kind |-> "partial"],
      [kind |-> "json",
       genres |-> << [genre |-> "Rock",
                      tracks |-> << Legacy(Join(DirARock, <<"c", ".flac">>), "c.flac"),
                                    Legacy(Ghost, "gone.mp3") >>] >>,
       folders |-> {DirARock}],
      [kind |-> "json",
       genres |-> << [genre |-> "A",
                      tracks |-> << TrackOf(Join(DirA, <<"e", ".m4a">>)) >>],
                     [genre |-> "Rock",
                      tracks |-> << Legacy(Ghost, "gone.mp3"),
                                    [path |-> NoPath, title |-> "x",
                                     artist |-> "y", album_art |-> None] >>] >>,
       folders |-> {DirA}],
      [kind |-> "json",
       genres |-> << [genre |-> "A",
                      tracks |-> << [path |-> Join(DirA, <<"e", ".m4a">>),
                                     title |-> Missing,
                                     artist |-> "Unknown Artist",
                                     album_art |-> None] >>] >>,
       folders |-> {DirA}] }

\* The state the first AudioPlayer() leaves.
InitStore ==
    \E file \in InitialConfigs : \E io \in LoadFaults :
    \E c \in {Constructed(file, [dirs |-> AllDirs, files |-> AllFiles \ LateFiles], io)} :
        /\ genres = c.genres
        /\ scanned_folders = c.scanned
        /\ genre_items = c.items
        /\ current_genre = AllGenres
        /\ current_playlist = c.playlist
        /\ current_index = -1
        /\ player_source = <<>>
        /\ config_file = c.file
        /\ app = c.app
        /\ disk = [dirs |-> AllDirs, files |-> AllFiles \ LateFiles]
        /\ disk_changes = 0
        /\ extract_calls = c.calls
        /\ lastOp = [op |-> "start", io |-> io, result |-> c.result, file |-> file]

\* The operations that write or read the persisted document, on a file
\* system that may fail them, and the disk changing under them.
NextStore ==
    \/ \E folder_path \in ScanRoots : \E io \in SaveFaults : Scan(folder_path, io)
    \/ \E selected \in Selections : \E io \in SaveFaults : Remove(selected, io)
    \/ \E io \in SaveFaults : Clear(io)
    \/ \E io \in SaveFaults : Close(io)
    \/ \E io \in LoadFaults : Start(io)
    \/ \E path \in DeletableFiles : DeleteFile(path)

SpecStore == InitStore /\ [][NextStore]_vars

(***************************************************************************)
(* Properties                                                              *)
(***************************************************************************)
\* The paths of the records of bucket k of mapping g (none for a missing key).
BucketPaths(g, k) == {GetOr(g, k)[i].path : i \in 1..Len(GetOr(g, k))}

\* The records of bucket k of mapping g (none for a missing key).
BucketRecords(g, k) == {GetOr(g, k)[i] : i \in 1..Len(GetOr(g, k))}

\* How many records of a bucket have the given path.
CountPath(tracks, path) == Cardinality({i \in 1..Len(tracks) : tracks[i].path = path})

\* The last step was scan(folder) for a folder already in the scanned set.
Rescanned ==
    /\ lastOp.op = "scan"
    /\ lastOp.folder \in lastOp.pre.scanned

\* C1: scan(folder) for a folder that is already in the scanned-folders set
\* changes neither the Library nor the scanned-folders set nor the Current
\* playlist.
C1_RescanIsNoOp ==
    Rescanned =>
        /\ genres = lastOp.pre.genres
        /\ scanned_folders = lastOp.pre.scanned
        /\ current_playlist = lastOp.pre.playlist

\* C2: on an unchanged disk, scan(folder) run twice in a row leaves the same
\* Library and the same scanned-folders set as scan(folder) run once, for
\* every folder and from every reachable Library.
C2_ScanTwiceIsScanOnce ==
    \A folder \in ScanRoots :
        LET once == scan_folder(Library, folder, disk)
            twice == scan_folder(once, folder, disk)
        IN  /\ twice.genres = once.genres
            /\ twice.scanned = once.scanned

\* A folder with audio files below it has just been scanned for the second
\* time, and the Library it found is the Library it left.
C2_Witness ==
    /\ Rescanned
    /\ genres = lastOp.pre.genres
    /\ \E k \in KeySet(genres) : Get(genres, k) # <<>>

\* C3: every record that is in a genre bucket before scan(folder) is in that
\* bucket after it.
C3_ScanOnlyAppends ==
    lastOp.op = "scan" =>
        \A k \in KeySet(lastOp.pre.genres) :
            BucketRecords(lastOp.pre.genres, k) \subseteq BucketRecords(genres, k)

\* C4: after scan(folder), every file with a supported extension in a
\* directory of the walked tree has a record in the bucket named after that
\* directory, and no record is of a file with another extension.
C4_ScanCoversTree ==
    lastOp.op = "scan" =>
        /\ \A p \in disk.files :
              ( /\ IsPrefix(lastOp.folder, p.dir)
                /\ Lower(p.file[2]) \in {".mp3", ".wav", ".flac", ".m4a", ".ogg"} )
              => p \in BucketPaths(genres, Basename(p.dir))
        /\ \A k \in KeySet(genres) : \A p \in BucketPaths(genres, k) :
              Lower(p.file[2]) \in {".mp3", ".wav", ".flac", ".m4a", ".ogg"}

\* C5: no genre bucket holds two records with the same path.
C5_UniquePaths ==
    \A n \in 1..Len(genres) : \A i, j \in 1..Len(genres[n].tracks) :
        genres[n].tracks[i].path = genres[n].tracks[j].path => i = j

\* A scan has just walked a file again whose record was in the bucket before.
C5_Witness ==
    /\ lastOp.op = "scan"
    /\ \E k \in KeySet(genres) :
          BucketPaths(genres, k) \cap BucketPaths(lastOp.pre.genres, k) # {}

\* C6: when a scan walks a file again whose record is already in the file's
\* bucket, it does not hand the file to the Metadata Extractor and does not
\* add a second record for it.
C6_NoReExtract ==
    lastOp.op = "scan" =>
        \A k \in KeySet(lastOp.pre.genres) :
            \A p \in BucketPaths(lastOp.pre.genres, k) :
                ( /\ p \in disk.files
                  /\ IsPrefix(lastOp.folder, p.dir)
                  /\ Basename(p.dir) = k )
                => /\ \A i \in 1..Len(extract_calls) : extract_calls[i] # p
                   /\ CountPath(GetOr(genres, k), p) <= 1

RECURSIVE SumLens(_)
\* The sum of the lengths of the buckets of mapping g.
SumLens(g) == IF g = <<>> THEN 0 ELSE Len(Head(g).tracks) + SumLens(Tail(g))

\* C7: the flattening under "All Genres" is as long as all buckets together,
\* and the path of each of its elements is in the bucket its annotation
\* names and in no other bucket.
C7_FlattenComplete ==
    LET flat == Flatten(genres, AllGenres)
    IN  /\ Len(flat) = SumLens(genres)
        /\ \A i \in 1..Len(flat) :
              /\ HasKey(genres, flat[i].genre)
              /\ \A k \in KeySet(genres) :
                    flat[i].path \in BucketPaths(genres, k) <=> k = flat[i].genre

\* The Library has tracks in two buckets at least.
C7_Witness ==
    \E k1, k2 \in KeySet(genres) :
        /\ k1 # k2
        /\ Get(genres, k1) # <<>>
        /\ Get(genres, k2) # <<>>

\* The last step was a remove with a non-empty selection.
Removed ==
    /\ lastOp.op = "remove"
    /\ lastOp.selected # {}

\* The paths the selected rows of the playlist showed for genre k.
SelectedPaths(k) ==
    {lastOp.pre.playlist[r].path :
        r \in {x \in lastOp.selected : lastOp.pre.playlist[x].genre = k}}

\* C8: after a remove, each bucket holds the records it held before except
\* those whose paths the selected playlist rows showed, whatever the order
\* of the playlist.
C8_RemoveExact ==
    Removed =>
        /\ KeySet(genres) \subseteq KeySet(lastOp.pre.genres)
        /\ \A k \in KeySet(lastOp.pre.genres) :
              BucketRecords(genres, k) =
                  {t \in BucketRecords(lastOp.pre.genres, k) :
                      t.path \notin SelectedPaths(k)}

\* The genres that had tracks before the last step and have none after it.
Emptied ==
    {k \in KeySet(lastOp.pre.genres) :
        Get(lastOp.pre.genres, k) # <<>> /\ GetOr(genres, k) = <<>>}

\* C9: a genre whose last track a remove takes out is no key of the genre
\* mapping afterwards, annotates no element of the "All Genres" flattening
\* and is no item of the genre selector.
C9_EmptiedGenreDeleted ==
    Removed =>
        \A k \in Emptied :
            /\ ~HasKey(genres, k)
            /\ \A i \in 1..Len(Flatten(genres, AllGenres)) :
                  Flatten(genres, AllGenres)[i].genre # k
            /\ \A i \in 1..Len(genre_items) : genre_items[i] # k

\* A remove has just taken the last track out of a genre.
C9_Witness == Removed /\ Emptied # {}

\* The Library and scanned set before anything is scanned.
EmptyLibrary ==
    [genres |-> <<>>, items |-> <<AllGenres>>, scanned |-> {}, calls |-> <<>>]

RECURSIVE ScanEach(_, _)
\* scan(folder) for each folder of a sequence in turn, on the present disk.
ScanEach(st, folders) ==
    IF folders = <<>> THEN st
    ELSE ScanEach(scan_folder(st, Head(folders), disk), Tail(folders))

\* The last step was a refresh.
Refreshed == lastOp.op = "refresh"

\* The folders of the scanned set before the last step that exist on disk.
Alive == {f \in lastOp.pre.scanned : DirExists(f, disk)}

\* C10 as stated: after refresh() the Library is the result of scanning
\* every folder of the former scanned set S from an empty Library, and the
\* scanned set is S again.
C10_RefreshRebuildsAll ==
    Refreshed =>
        /\ scanned_folders = lastOp.pre.scanned
        /\ \E order \in PermSeqs(lastOp.pre.scanned) :
              genres = ScanEach(EmptyLibrary, order).genres

\* C10 amended: after refresh() the Library is the result of scanning, from
\* an empty Library, every folder of S that still exists on disk, and the
\* scanned set is the set of those folders.
C10_RefreshRebuildsExisting ==
    Refreshed =>
        /\ scanned_folders = Alive
        /\ \E order \in PermSeqs(Alive) :
              genres = ScanEach(EmptyLibrary, order).genres

\* A refresh has just rebuilt a Library from a scanned set of which one
\* folder is gone from the disk and another is still there.
C10_Witness ==
    /\ Refreshed
    /\ scanned_folders # {}
    /\ scanned_folders # lastOp.pre.scanned
    /\ \E k \in KeySet(genres) : Get(genres, k) # <<>>

\* The document save_data writes for mapping g and the folder set.
Document(g, folders) == [kind |-> "json", genres |-> g, folders |-> folders]

\* The paths of the records of mapping g that are not files on the disk.
Stale(g) == {Records(g)[i].path : i \in 1..Len(Records(g))} \ disk.files

\* The last step was a start of the program that found a file that parses.
LoadedParsable ==
    /\ lastOp.op = "start"
    /\ lastOp.io # "read_error"
    /\ lastOp.file.kind = "json"

\* C11 as stated: after load() of a persisted file that parses, no record of
\* the in-memory Library has a path that does not exist on disk, and the
\* persisted file holds the pruned Library and references no dropped path.
C11_LoadPrunes ==
    LoadedParsable =>
        /\ Stale(genres) = {}
        /\ config_file = Document(genres, scanned_folders)
        /\ Stale(config_file.genres) = {}

\* C11 amended: after load() of a persisted file that parses and whose
\* records all have a path, no record of the in-memory Library has a path
\* that does not exist on disk; when the save that ends load succeeds, the
\* persisted file holds the pruned Library and references no dropped path.
C11_LoadPrunesWellFormed ==
    (LoadedParsable /\ ~Raises(lastOp.file.genres)) =>
        /\ Stale(genres) = {}
        /\ lastOp.io = "ok" =>
              /\ config_file = Document(genres, scanned_folders)
              /\ Stale(config_file.genres) = {}

\* A load has just dropped the record of a file that is gone and kept
\* another record, and its save went through.
C11_Witness ==
    /\ LoadedParsable
    /\ ~Raises(lastOp.file.genres)
    /\ lastOp.io = "ok"
    /\ Stale(lastOp.file.genres) # {}
    /\ Records(genres) # <<>>

\* A record without a path, or with an artist and without a title.
MalformedRecord(t) == t.path = NoPath \/ (t.title = Missing /\ t.artist # Missing)

Malformed(g) == \E i \in 1..Len(Records(g)) : MalformedRecord(Records(g)[i])

\* The last step was a start of the program whose load could not read or
\* parse the file.
LoadUnreadable ==
    /\ lastOp.op = "start"
    /\ lastOp.file.kind # "absent"
    /\ lastOp.io = "read_error" \/ lastOp.file.kind = "partial"

\* C12 as stated: when reading or parsing the persisted file fails, or a
\* record of it is malformed, load ends with an empty Library and an empty
\* scanned-folders set.
C12_BadFileLoadsEmpty ==
    (LoadUnreadable \/ (LoadedParsable /\ Malformed(lastOp.file.genres))) =>
        /\ genres = <<>>
        /\ scanned_folders = {}

\* C12 amended: when reading or parsing the persisted file fails, or a
\* record of it has no path, load ends with an empty Library and an empty
\* scanned-folders set, the file is as it was, and the constructor goes on
\* to an empty playlist.
C12_FailedLoadIsEmpty ==
    (LoadUnreadable \/ (LoadedParsable /\ Raises(lastOp.file.genres))) =>
        /\ genres = <<>>
        /\ scanned_folders = {}
        /\ config_file = lastOp.file
        /\ current_playlist = <<>>
        /\ app = "running"

\* A load has just met a record without a path after records of files that
\* exist, and left nothing of them.
C12_Witness ==
    /\ LoadedParsable
    /\ Raises(lastOp.file.genres)
    /\ \E i \in 1..Len(Records(lastOp.file.genres)) :
          Records(lastOp.file.genres)[i].path \in disk.files
    /\ genres = <<>>

\* C13: when the save_data call of a handler fails, the persisted file is
\* after the handler what it was before it.
C13_FailedSaveKeepsFile ==
    [][ ( /\ lastOp'.op \in {"scan", "refresh", "remove", "clear", "close"}
          /\ lastOp'.save \in {"open_error", "write_error", "type_error"} )
        => config_file' = config_file ]_vars

\* The last step was one of the operations that end with save_data, and the
\* file system let the save through.
SavedLibrary ==
    /\ lastOp.op \in {"scan", "refresh", "clear", "close"} \/ Removed
    /\ lastOp.save \notin {"open_error", "write_error"}

\* C14: after scan, refresh, remove with a non-empty selection, clear and
\* shutdown the persisted document holds exactly the in-memory genre mapping
\* and the in-memory scanned-folders set.
C14_FileEncodesLibrary ==
    SavedLibrary => config_file = Document(genres, scanned_folders)

\* Mapping g holds a record with album art bytes.
HasArt(g) == \E i \in 1..Len(Records(g)) : Records(g)[i].album_art = "bytes"

\* Mapping g with null in place of every byte blob.
NullArt(g) ==
    [i \in 1..Len(g) |->
        [genre |-> g[i].genre,
         tracks |-> [j \in 1..Len(g[i].tracks) |->
                        IF g[i].tracks[j].album_art = "bytes"
                        THEN [g[i].tracks[j] EXCEPT !.album_art = None]
                        ELSE g[i].tracks[j]]]]

\* C15: when the in-memory Library holds a track with album art bytes, the
\* save writes a complete document in which that track's album_art is null.
C15_ArtSavedAsNull ==
    (SavedLibrary /\ HasArt(genres)) =>
        /\ config_file.kind = "json"
        /\ config_file = Document(NullArt(genres), scanned_folders)

\* C16: the Current index is -1 or a valid index of the Current playlist.
C16_IndexInRange ==
    current_index = -1 \/ ValidIndex(current_index, current_playlist)

\* C17: when the Current index is not -1, the record at that index of the
\* Current playlist has the path last handed to the player as its source.
C17_IndexNamesSource ==
    current_index # -1 =>
        /\ ValidIndex(current_index, current_playlist)
        /\ player_source = <<current_playlist[current_index + 1].path>>

\* Sequence p holds the elements of sequence q in some order.
IsPermutation(p, q) ==
    /\ Len(p) = Len(q)
    /\ \E perm \in PermSeqs(1..Len(q)) : p = [i \in 1..Len(perm) |-> q[perm[i]]]

\* The last step was a shuffle.
Shuffled == lastOp.op = "shuffle"

\* C18: the shuffled playlist is a permutation of the playlist before, and
\* when the Current index was valid before the shuffle, the record at the
\* new Current index has the path and the genre of the record at the old one.
C18_ShuffleKeepsTarget ==
    Shuffled =>
        /\ IsPermutation(current_playlist, lastOp.pre.playlist)
        /\ ValidIndex(lastOp.pre.index, lastOp.pre.playlist) =>
              /\ ValidIndex(current_index, current_playlist)
              /\ current_playlist[current_index + 1].path =
                     lastOp.pre.playlist[lastOp.pre.index + 1].path
              /\ current_playlist[current_index + 1].genre =
                     lastOp.pre.playlist[lastOp.pre.index + 1].genre

\* A shuffle of three tracks or more has just moved the track under the
\* cursor to another row.
C18_Witness ==
    /\ Shuffled
    /\ Len(current_playlist) >= 3
    /\ ValidIndex(lastOp.pre.index, lastOp.pre.playlist)
    /\ current_index # lastOp.pre.index

\* C19: a shuffle step leaves the genre mapping, the scanned-folders set and
\* the persisted file as they were, and what it leaves of the playlist is a
\* permutation of it.
C19_ShuffleFrame ==
    [][ lastOp'.op = "shuffle" =>
          /\ genres' = genres
          /\ scanned_folders' = scanned_folders
          /\ config_file' = config_file
          /\ IsPermutation(current_playlist', current_playlist) ]_vars

\* A shuffle has just reordered the playlist of one genre whose bucket holds
\* two tracks or more.
C19_Witness ==
    /\ Shuffled
    /\ current_genre # AllGenres
    /\ current_playlist # lastOp.pre.playlist
    /\ Len(GetOr(genres, current_genre)) >= 2

\* C20 as stated: after scan, refresh, remove, clear and a genre-filter
\* change the Current playlist is the flattening of the Library under the
\* selected genre.
C20_PlaylistIsFlatten ==
    lastOp.op \in {"scan", "refresh", "remove", "clear", "genre"} =>
        current_playlist = Flatten(genres, current_genre)

\* C20 amended: after scan, refresh, remove with a non-empty selection, clear
\* and a genre-filter change the Current playlist is the flattening of the
\* Library under the selected genre.
C20_PlaylistIsFlattenAfterChange ==
    (lastOp.op \in {"scan", "refresh", "clear", "genre"} \/ Removed) =>
        current_playlist = Flatten(genres, current_genre)

\* A clear has just run on a playlist that a shuffle had left in another
\* order than the Library's.
C20_Witness ==
    /\ lastOp.op = "clear"
    /\ lastOp.pre.playlist # <<>>
    /\ lastOp.pre.playlist # Flatten(lastOp.pre.genres, lastOp.pre.current)

\* The audio files on the disk below the folder of the last scan.
Walked ==
    {p \in disk.files : IsPrefix(lastOp.folder, p.dir) /\ IsAudio(p.file)}

\* The record of a file whose metadata could not be read.
DefaultRecord(p) ==
    [path |-> p, title |-> p.file[1], artist |-> "Unknown Artist",
     album_art |-> None]

\* C21: after a scan, every file of the tree on which the tag parser raised
\* has a record with the file name without extension as title, "Unknown
\* Artist" as artist and no album art in the bucket of its directory, every
\* audio file of the tree was handed to the extractor, and the folder is in
\* the scanned-folders set.
C21_FailureKeepsScanning ==
    lastOp.op = "scan" =>
        /\ \A p \in Walked :
              FileKind(p) = "unreadable" =>
                  DefaultRecord(p) \in BucketRecords(genres, Basename(p.dir))
        /\ \A p \in Walked : \E i \in 1..Len(extract_calls) : extract_calls[i] = p
        /\ lastOp.folder \in scanned_folders

\* The genre mapping a refresh builds when it visits the folders in the
\* given order.
Rebuilt(order) == RescanAll(EmptyLibrary, order, disk).genres

\* C22: the buckets a refresh leaves, and the set of paths in each, are those
\* of every order in which the folders of the scanned set can be visited.
C22_RefreshOrderFree ==
    Refreshed =>
        \A order \in PermSeqs(lastOp.pre.scanned) :
            /\ KeySet(Rebuilt(order)) = KeySet(genres)
            /\ \A k \in KeySet(genres) :
                  BucketPaths(Rebuilt(order), k) = BucketPaths(genres, k)

\* The cursor and the player's source after a step from index old to the
\* row that lies `by` rows further, around the ends of a playlist of n rows.
Stepped(by) ==
    LET n == Len(current_playlist)
    IN  IF n = 0
        THEN /\ current_index' = current_index
             /\ player_source' = player_source
        ELSE /\ current_index' \in 0..(n - 1)
             /\ (current_index' - (current_index + by)) % n = 0
             /\ player_source' = <<current_playlist[current_index' + 1].path>>

\* C23: on a playlist of n > 0 rows play_next moves the cursor from any
\* index, -1 and stale ones included, to (old + 1) mod n and play_previous to
\* (old - 1) mod n, from n - 1 forward to 0 and from 0 back to n - 1, and the
\* player gets the track of that row; on an empty playlist both leave the
\* cursor and the player's source as they were.
C23_NextPreviousWrap ==
    [][ /\ lastOp'.op = "next" =>
              /\ Stepped(1)
              /\ (current_playlist # <<>> /\ current_index = Len(current_playlist) - 1)
                    => current_index' = 0
        /\ lastOp'.op = "previous" =>
              /\ Stepped(-1)
              /\ (current_playlist # <<>> /\ current_index = 0)
                    => current_index' = Len(current_playlist) - 1 ]_vars

\* play_previous has just wrapped around from row 0, or from no row, of a
\* playlist of two rows or more, or play_next or play_previous has just left
\* a stale index.
C23_Witness ==
    /\ lastOp.op \in {"next", "previous"}
    /\ Len(current_playlist) >= 2
    /\ \/ lastOp.op = "previous" /\ lastOp.from \in {-1, 0}
             /\ current_index >= Len(current_playlist) - 2
       \/ lastOp.from >= Len(current_playlist)

====
